---- MODULE Spec2Model ----
(***************************************************************************)
(* ProRFL SDK agent (src/keycard_script.py): the request handlers          *)
(* api_create_card, api_read_card, api_delete_card and trigger_buzzer,     *)
(* the vendor driver they call, the lock sdk_lock and the cards            *)
(* collection.                                                             *)
(*                                                                         *)
(* Every request is a sequence of steps; a step is one driver call, one    *)
(* store call or one lock operation of the handler, together with the      *)
(* Python statements around it.  Requests interleave at step boundaries,   *)
(* which is the scheduling sdk_lock (a threading.Lock) is there for; the   *)
(* schedule in which each handler runs to its end without interruption is  *)
(* one of the interleavings.  The requests in flight are numbered in the   *)
(* order of their arrival; a request leaves when its response is           *)
(* delivered.                                                              *)
(***************************************************************************)
EXTENDS Integers, Sequences, FiniteSets, TLC

\* ------------------------------------------------------------------ bounds
NReq == 2        \* requests in flight at the same time
MaxServed == 2   \* requests served in one run

Reqs == 1..NReq

\* ------------------------------------------------------------------ inputs
\* A JSON hotel_id: an integer, a numeric string ("1"), some other string,
\* or absent.
HotelNumbers == {1, 2}
StringNumbers == {1}
HotelIds ==
    {[t |-> "int", v |-> n] : n \in HotelNumbers}
        \cup {[t |-> "str", v |-> n] : n \in StringNumbers}
        \cup {[t |-> "bad", v |-> 0], [t |-> "none", v |-> 0]}

\* int(x) of a hotel_id: defined on integers and numeric strings only.
IntRaises(h) == h.t \in {"bad", "none"}
IntOf(h) == [t |-> "int", v |-> h.v]

\* A JSON lock_no: a string (its characters) or absent.
Lock8 == <<"0", "1", "0", "0", "0", "8", "0", "8">>
LockNos ==
    {[t |-> "none", s |-> <<>>],
     [t |-> "str", s |-> Lock8],
     [t |-> "str", s |-> SubSeq(Lock8, 1, 7)],
     [t |-> "str", s |-> Lock8 \o <<"0">>]}

\* The strings lockstr_to_bytes is tried on: every string of 7, 8 or 9 of
\* these characters, and the empty string.
LockChars == {"0", "1", "8"}
LockStrings ==
    {[t |-> "str", s |-> <<>>]}
        \cup {[t |-> "str", s |-> w] : w \in UNION {[1..n -> LockChars] : n \in 7..9}}

\* The other required fields of create_card; a request may lack some.
OtherFields == {"card_no", "checkin_time", "checkout_time", "room_no"}
MissingSets == {{}, {"room_no"}, OtherFields}

\* fUSB and duration_ms as sent to /readcard and /buzzer.
ReaderInputs == {0, 1}
BuzzerReaderInputs == {1, 2}
DurationInputs == {5, 500, 10000}

\* Vendor return codes other than 0.
ErrCodes == {1, 2}

\* What the driver may leave at the start of the output buffer: 'A' and
\* 'B' are identifier characters, 0 is NUL, 255 is not valid UTF-8.
Buffers == {<<0, 65>>, <<65, 0>>, <<255, 65>>, <<66, 66>>}
NoBuffer == <<0, 0>>

\* ------------------------------------------------------------------ codec
\* ctypes: card_hex.value, the bytes before the first NUL.
RECURSIVE CValue(_)
CValue(b) ==
    IF b = <<>> \/ Head(b) = 0 THEN <<>> ELSE <<Head(b)>> \o CValue(Tail(b))

\* bytes.decode(errors="ignore"): bytes that are not valid UTF-8 are dropped.
RECURSIVE DecodeIgnore(_)
DecodeIgnore(b) ==
    IF b = <<>> THEN <<>>
    ELSE IF Head(b) >= 128 THEN DecodeIgnore(Tail(b))
    ELSE <<Head(b)>> \o DecodeIgnore(Tail(b))

\* str.rstrip('\x00')
RECURSIVE RStripNul(_)
RStripNul(s) ==
    IF s # <<>> /\ s[Len(s)] = 0 THEN RStripNul(SubSeq(s, 1, Len(s) - 1)) ELSE s

\* card_hex.value.decode(errors="ignore").rstrip('\x00')
DecodePayload(buf) == RStripNul(DecodeIgnore(CValue(buf)))

\* c_ubyte(x): no overflow check, the value is taken modulo 256.
c_ubyte(x) == x % 256

\* ord(c)
ord(c) == CASE c = "0" -> 48 [] c = "1" -> 49 [] c = "8" -> 56

\* lockstr_to_bytes: raises (TypeError for None, ValueError for a wrong
\* length), else (c_ubyte * 8)(*[ord(lockstr[i]) for i in range(8)]).
LockRaises_ShortOnly(l) == l.t = "none" \/ Len(l.s) < 8
LockRaises(l) == l.t = "none" \/ Len(l.s) # 8
lockstr_to_bytes_Reversed(l) == [i \in 1..8 |-> c_ubyte(ord(l.s[9 - i]))]
lockstr_to_bytes(l) == [i \in 1..8 |-> c_ubyte(ord(l.s[i]))]

\* ------------------------------------------------------------------ state
VARIABLES
    pc,        \* pc[r]: where request r is in its handler
    kind,      \* kind[r]: the endpoint of request r
    args,      \* args[r]: the JSON fields of request r
    loc,       \* loc[r]: the handler's local variables
    sdk_lock,  \* 0 when free, else the request that holds it
    session,   \* requests whose initializeUSB succeeded and CloseUSB is not yet called
    store,     \* cards_collection: the documents in insertion (_id) order
    nextId,    \* the next _id
    trace,     \* trace[r]: the lock, driver and store calls request r has made, in order
    served     \* requests received so far

vars == <<pc, kind, args, loc, sdk_lock, session, store, nextId, trace, served>>

NoArgs ==
    [hotel_id |-> [t |-> "none", v |-> 0], lock_no |-> [t |-> "none", s |-> <<>>],
     missing |-> {}, fUSB |-> 1, duration_ms |-> 0]

NoResp == [status |-> 0, detail |-> "none", code |-> 0, card_data |-> <<>>, exc |-> "none"]

\* lock_no: what lockstr_to_bytes returned;
\* queue_start: the place among the requests waiting for sdk_lock, by the
\* time they began to wait (0 when not waiting);
\* card_hex, target: the document find_one returned (its card_hex, its _id);
\* res, card_data: what the driver call returned; beep: what buzzer(1, 500)
\* returned to create_card() or delete_card(), "none" once that has returned; pending: the response or
\* exception on its way out of the handler; removed: the _ids delete_one removed.
NoLoc ==
    [lock_no |-> <<>>, queue_start |-> 0, card_hex |-> <<>>, target |-> 0, res |-> 0, card_data |-> <<>>,
     beep |-> "none", pending |-> NoResp, removed |-> {}]

Init ==
    /\ pc = [r \in Reqs |-> "idle"]
    /\ kind = [r \in Reqs |-> "none"]
    /\ args = [r \in Reqs |-> NoArgs]
    /\ loc = [r \in Reqs |-> NoLoc]
    /\ sdk_lock = 0
    /\ session = {}
    /\ store = <<>>
    /\ nextId = 1
    /\ trace = [r \in Reqs |-> <<>>]
    /\ served = 0

\* ------------------------------------------------------------------ responses
Ok(detail, data) ==
    [status |-> 200, detail |-> detail, code |-> 0, card_data |-> data, exc |-> "none"]
\* raise HTTPException(status_code=..., detail=...), or a JSONResponse with
\* an error status
HttpError(status, detail, code) ==
    [status |-> status, detail |-> detail, code |-> code, card_data |-> <<>>, exc |-> "HTTPException"]
\* any other exception leaves the handler: the server answers 500
Unhandled(exc) ==
    [status |-> 500, detail |-> "Internal Server Error", code |-> 0, card_data |-> <<>>, exc |-> exc]

\* ------------------------------------------------------------------ events
\* arg: the arguments that matter; buf: what the call left in the output
\* buffer; out: "ok" (returned 0 or returned), "fail" (returned nonzero),
\* "raise", or "-" when the caller drops the result.
EvBuf(op, reader, arg, buf, out) ==
    [op |-> op, reader |-> reader, arg |-> arg, buf |-> buf, out |-> out]
Ev(op, reader, arg, out) == EvBuf(op, reader, arg, <<>>, out)
LogAll(r, es) == trace' = [trace EXCEPT ![r] = @ \o es]
Log(r, e) == LogAll(r, <<e>>)
\* name = time.perf_counter(), or name = time.perf_counter() - earlier
Clock(name) == Ev("perf_counter", 0, <<name>>, "ok")
OutOf(ret) == IF ret = 0 THEN "ok" ELSE "fail"

DriverOps == {"initializeUSB", "CloseUSB", "Buzzer", "GuestCard", "ReadCard", "CardErase"}
BodyOps == {"GuestCard", "ReadCard", "CardErase"}
StoreWrites == {"insert_one", "delete_one"}

Ops(r) == {trace[r][i].op : i \in 1..Len(trace[r])}
Count(r, op, outs) ==
    Cardinality({i \in 1..Len(trace[r]) : trace[r][i].op = op /\ trace[r][i].out \in outs})
AnyOut == {"ok", "fail", "raise", "-"}

\* ------------------------------------------------------------------ driver
\* What a vendor call can do: return a code, or fault (ctypes raises OSError).
Codes == {0} \cup ErrCodes

\* buzzer(): t = duration_ms // 10, passed as c_ubyte(t).
BuzzerUnits(duration_ms) == c_ubyte(duration_ms \div 10)

\* init_usb(): True iff initializeUSB returned 0.
init_usb_Ignored(res) == TRUE
init_usb(res) == res = 0

\* create_card(), read_card(), delete_card(): result["status"].
ResultStatus_AlwaysSuccess(res) == "success"
ResultStatus(res) == IF res = 0 THEN "success" ELSE "error"

\* ------------------------------------------------------------------ sdk_lock
\* threading.Lock: acquire() returns only when the lock is free.
LockFree_NoExclusion == TRUE
LockFree == sdk_lock = 0

\* try/finally: every way out of the try block ("return" or "raise") goes
\* through close_usb().
AfterTry_NoFinally(how) == IF how = "raise" THEN "release" ELSE "close"
AfterTry(how) == "close"

\* ------------------------------------------------------------------ store
Ids(s) == {s[i].id : i \in 1..Len(s)}
Doc(s, id) == s[CHOOSE i \in 1..Len(s) : s[i].id = id]
Without(s, id) == SelectSeq(s, LAMBDA d : d.id # id)

\* Equality of a stored value and a query value: an int and a str never match.
Matches(s, h) == {s[i].id : i \in {j \in 1..Len(s) : s[j].hotel_id = h}}

\* find_one({"hotel_id": h}, sort=[("_id", -1)]): the _id of the newest
\* match, 0 for None.
FindLatest_AnyHotel(s, h) ==
    IF s = <<>> THEN 0 ELSE CHOOSE id \in Ids(s) : \A o \in Ids(s) : o <= id
FindLatest(s, h) ==
    IF Matches(s, h) = {} THEN 0
    ELSE CHOOSE id \in Matches(s, h) : \A o \in Matches(s, h) : o <= id

\* delete_one({"hotel_id": h}): removes one matching document; no sort is
\* given, so which one is the server's choice.
DeleteFilter(r) == args[r].hotel_id

\* ------------------------------------------------------------------ requests
\* Between the driver call of its handler and the delivery of its response
\* (and between taking the lock and opening the session) a request runs on
\* without the others: those steps touch only the request's own variables,
\* the session it owns and the store it alone may write, so any other
\* request's step can be moved before or after them.  The others take their
\* steps while the holder of the lock is at "op", or outside the lock.
Private == {"buzz", "init", "fb", "persist", "close", "release", "respond"}
Turn(r) == \A q \in Reqs \ {r} : pc[q] \notin Private

\* A request arrives and takes the first free slot, behind the requests in
\* flight.
Arrives(r) ==
    /\ Turn(r)
    /\ pc[r] = "idle"
    /\ served < MaxServed
    /\ \A q \in Reqs : q < r => pc[q] # "idle"
    /\ served' = served + 1

Goto(r, label) == pc' = [pc EXCEPT ![r] = label]

\* The response (or exception) leaves the handler.
Finish(r, response) ==
    /\ Goto(r, "respond")
    /\ loc' = [loc EXCEPT ![r].pending = response]

\* queue_start = time.perf_counter(): the request begins to wait, behind
\* those already waiting.
Waiting == {q \in Reqs : pc[q] = "wait"}
QueueStart == Cardinality(Waiting) + 1

\* api_create_card, lines 254-265: the fields, lockstr_to_bytes, the None check.
CreateRejects(h, m) == h.t = "none" \/ m # {}

StartCreate(r) ==
    /\ Arrives(r)
    /\ \E h \in HotelIds, l \in LockNos, m \in MissingSets :
        /\ kind' = [kind EXCEPT ![r] = "create"]
        /\ args' = [args EXCEPT ![r] = [NoArgs EXCEPT !.hotel_id = h, !.lock_no = l, !.missing = m]]
        /\ IF LockRaises(l)
             THEN Finish(r, Unhandled(IF l.t = "none" THEN "TypeError" ELSE "ValueError"))
             ELSE IF CreateRejects(h, m)
                    THEN Finish(r, HttpError(400, "Missing required parameters", 0))
                    ELSE /\ Goto(r, "wait")
                         /\ loc' = [loc EXCEPT ![r].lock_no = lockstr_to_bytes(l),
                                               ![r].queue_start = QueueStart]
        /\ IF LockRaises(l) \/ CreateRejects(h, m)
             THEN UNCHANGED trace
             ELSE Log(r, Clock("queue_start"))
    /\ UNCHANGED <<sdk_lock, session, store, nextId>>

\* api_read_card, lines 324-328.
StartRead(r) ==
    /\ Arrives(r)
    /\ \E f \in ReaderInputs :
        /\ kind' = [kind EXCEPT ![r] = "read"]
        /\ args' = [args EXCEPT ![r] = [NoArgs EXCEPT !.fUSB = f]]
    /\ Goto(r, "wait")
    /\ loc' = [loc EXCEPT ![r].queue_start = QueueStart]
    /\ Log(r, Clock("queue_start"))
    /\ UNCHANGED <<sdk_lock, session, store, nextId>>

\* api_delete_card, lines 376-378.
StartDelete(r) ==
    /\ Arrives(r)
    /\ \E h \in HotelIds :
        /\ kind' = [kind EXCEPT ![r] = "delete"]
        /\ args' = [args EXCEPT ![r] = [NoArgs EXCEPT !.hotel_id = h]]
    /\ Goto(r, "find")
    /\ UNCHANGED <<loc, sdk_lock, session, store, nextId, trace>>

\* api_delete_card, lines 380-395: find_one, the two checks.
FindOne(r) ==
    /\ Turn(r)
    /\ pc[r] = "find"
    /\ IF IntRaises(args[r].hotel_id)
         THEN /\ Finish(r, Unhandled(IF args[r].hotel_id.t = "none" THEN "TypeError" ELSE "ValueError"))
              /\ UNCHANGED trace
         ELSE LET id == FindLatest(store, IntOf(args[r].hotel_id)) IN
              /\ IF id # 0 /\ Doc(store, id).card_hex # <<>>
                   THEN LogAll(r, <<Ev("find_one", 0, <<id>>, "ok"), Clock("queue_start")>>)
                   ELSE Log(r, Ev("find_one", 0, <<id>>, "ok"))
              /\ IF id = 0
                   THEN Finish(r, HttpError(404, "Card not found", 0))
                   ELSE IF Doc(store, id).card_hex = <<>>
                          THEN Finish(r, HttpError(400, "Missing card data", 0))
                          ELSE /\ loc' = [loc EXCEPT ![r].card_hex = Doc(store, id).card_hex,
                                                     ![r].target = id,
                                                     ![r].queue_start = QueueStart]
                               /\ Goto(r, "wait")
    /\ UNCHANGED <<kind, args, sdk_lock, session, store, nextId, served>>

\* with sdk_lock: (entry).  A threading.Lock keeps no queue: when it is free,
\* which of the waiting requests gets it is not defined.  The others that
\* began to wait later move up one place.
Acquire(r) ==
    /\ Turn(r)
    /\ pc[r] = "wait"
    /\ LockFree
    /\ sdk_lock' = r
    /\ LogAll(r, <<Ev("acquire", 0, <<>>, "ok"), Clock("queue_wait")>>)
    /\ Goto(r, "buzz")
    /\ loc' = [q \in Reqs |->
                IF q = r THEN [loc[q] EXCEPT !.queue_start = 0]
                ELSE IF loc[q].queue_start > loc[r].queue_start
                       THEN [loc[q] EXCEPT !.queue_start = @ - 1]
                       ELSE loc[q]]
    /\ UNCHANGED <<kind, args, session, store, nextId, served>>

\* buzzer(1, 1000) right after the lock is taken; its result is dropped.
\* Then start_time = time.perf_counter().
LockedBuzzer(r) ==
    /\ Turn(r)
    /\ pc[r] = "buzz"
    /\ \E ret \in Codes :
        LogAll(r, <<Ev("Buzzer", c_ubyte(1), <<BuzzerUnits(1000)>>, "-"), Clock("start_time")>>)
    /\ Goto(r, "init")
    /\ UNCHANGED <<kind, args, loc, sdk_lock, session, store, nextId, served>>

\* if not init_usb(): raise HTTPException(500, "USB initialization failed")
InitUsb(r) ==
    /\ Turn(r)
    /\ pc[r] = "init"
    /\ \E ret \in Codes :
        /\ Log(r, Ev("initializeUSB", 1, <<>>, OutOf(ret)))
        /\ IF init_usb(ret)
             THEN /\ session' = session \cup {r}
                  /\ Goto(r, "op")
                  /\ UNCHANGED loc
             ELSE /\ loc' = [loc EXCEPT ![r].pending = HttpError(500, "USB initialization failed", 0)]
                  /\ Goto(r, "release")
                  /\ UNCHANGED session
    /\ UNCHANGED <<kind, args, sdk_lock, store, nextId, served>>

\* The arguments of GuestCard that come from the request: the hotel id and
\* the 8 lock bytes.
GuestCardArgs(r) == <<args[r].hotel_id.v>> \o loc[r].lock_no

\* create_card(int(hotel_id), int(card_no), ...) up to the return of GuestCard.
GuestCardCall(r) ==
    /\ Turn(r)
    /\ pc[r] = "op" /\ kind[r] = "create"
    /\ IF IntRaises(args[r].hotel_id)
         THEN /\ loc' = [loc EXCEPT ![r].pending = Unhandled("ValueError")]
              /\ Goto(r, AfterTry("raise"))
              /\ UNCHANGED trace
         ELSE \/ /\ Log(r, Ev("GuestCard", 1, GuestCardArgs(r), "raise"))
                 /\ loc' = [loc EXCEPT ![r].pending = Unhandled("OSError")]
                 /\ Goto(r, AfterTry("raise"))
              \/ \E ret \in Codes, buf \in Buffers \cup {NoBuffer} :
                 /\ ret # 0 => buf = NoBuffer
                 /\ Log(r, EvBuf("GuestCard", 1, GuestCardArgs(r), buf, OutOf(ret)))
                 /\ loc' = [loc EXCEPT ![r].res = ret, ![r].card_data = DecodePayload(buf)]
                 /\ Goto(r, "fb")
    /\ UNCHANGED <<kind, args, sdk_lock, session, store, nextId, served>>

\* api_read_card has no store call: the collection after a successful read.
StoreAfterRead_Saved(s, data) ==
    Append(s, [id |-> Len(s) + 1, hotel_id |-> [t |-> "int", v |-> 1], card_hex |-> data])
StoreAfterRead(s, data) == s

\* read_card(int(fUSB)) and the handler's branch on result["status"].
ReadCardCall(r) ==
    /\ Turn(r)
    /\ pc[r] = "op" /\ kind[r] = "read"
    /\ \/ /\ Log(r, Ev("ReadCard", c_ubyte(args[r].fUSB), <<>>, "raise"))
          /\ loc' = [loc EXCEPT ![r].pending = Unhandled("OSError")]
          /\ Goto(r, AfterTry("raise"))
          /\ UNCHANGED store
       \/ \E ret \in Codes, buf \in Buffers \cup {NoBuffer} :
          /\ ret # 0 => buf = NoBuffer
          /\ LogAll(r, <<EvBuf("ReadCard", c_ubyte(args[r].fUSB), <<>>, buf, OutOf(ret))>>
                          \o IF ResultStatus(ret) = "success" THEN <<Clock("elapsed")>> ELSE <<>>)
          /\ loc' = [loc EXCEPT ![r].res = ret,
                                ![r].pending =
                                    IF ResultStatus(ret) = "success"
                                      THEN Ok("Card read successful", DecodePayload(buf))
                                      ELSE HttpError(500, "Card read failed", ret)]
          /\ store' = IF ResultStatus(ret) = "success"
                        THEN StoreAfterRead(store, DecodePayload(buf)) ELSE store
          /\ Goto(r, AfterTry(IF ResultStatus(ret) = "success" THEN "return" ELSE "raise"))
    /\ UNCHANGED <<kind, args, sdk_lock, session, nextId, served>>

\* delete_card(int(hotel_id), card_hex) up to the return of CardErase.
CardEraseCall(r) ==
    /\ Turn(r)
    /\ pc[r] = "op" /\ kind[r] = "delete"
    /\ \/ /\ Log(r, Ev("CardErase", 1, loc[r].card_hex, "raise"))
          /\ loc' = [loc EXCEPT ![r].pending = Unhandled("OSError")]
          /\ Goto(r, AfterTry("raise"))
       \/ \E ret \in Codes :
          /\ Log(r, Ev("CardErase", 1, loc[r].card_hex, OutOf(ret)))
          /\ loc' = [loc EXCEPT ![r].res = ret]
          /\ Goto(r, "fb")
    /\ UNCHANGED <<kind, args, sdk_lock, session, store, nextId, served>>

\* create_card() and delete_card(): result["status"] follows from the code
\* of the card call; what buzzer(1, 500) returned is not looked at.
FeedbackStatus_Escalated(res, beep) == IF beep = "ok" THEN ResultStatus(res) ELSE "error"
FeedbackStatus(res, beep) == ResultStatus(res)

\* buzzer(1, 500) in create_card() and delete_card(), on both branches, and
\* the handler's branch on result["status"].
FeedbackBuzzer(r) ==
    /\ Turn(r)
    /\ pc[r] = "fb"
    /\ Log(r, Ev("Buzzer", c_ubyte(1), <<BuzzerUnits(500)>>, "-"))
    /\ \E ret \in Codes :
        IF FeedbackStatus(loc[r].res, OutOf(ret)) = "success"
          THEN /\ Goto(r, "persist")
               /\ loc' = [loc EXCEPT ![r].beep = OutOf(ret)]
          ELSE /\ loc' = [loc EXCEPT ![r].beep = OutOf(ret), ![r].pending =
                     HttpError(500, IF kind[r] = "create" THEN "Card creation failed"
                                    ELSE "Card deletion failed", loc[r].res)]
               /\ Goto(r, AfterTry("raise"))
    /\ UNCHANGED <<kind, args, sdk_lock, session, store, nextId, served>>

\* The document api_create_card inserts.
NewCard_NoData(r) ==
    [id |-> nextId, hotel_id |-> args[r].hotel_id, card_hex |-> <<>>]
NewCard(r) ==
    [id |-> nextId, hotel_id |-> args[r].hotel_id, card_hex |-> loc[r].card_data]

\* insert_one raises inside the try block: there is no except clause, so the
\* exception leaves the handler as it is.
OnInsertError_Swallowed(r) == Ok("Card creation successful", loc[r].card_data)
OnInsertError(r) == Unhandled("PyMongoError")

\* cards_collection.insert_one({...}), then the success response.
InsertOne(r) ==
    /\ Turn(r)
    /\ pc[r] = "persist" /\ kind[r] = "create"
    /\ \/ /\ store' = Append(store, NewCard(r))
          /\ nextId' = nextId + 1
          /\ LogAll(r, <<Ev("insert_one", 0, <<nextId>>, "ok"), Clock("elapsed")>>)
          /\ loc' = [loc EXCEPT ![r].beep = "none",
                                ![r].pending = Ok("Card creation successful", loc[r].card_data)]
          /\ Goto(r, AfterTry("return"))
       \/ /\ Log(r, Ev("insert_one", 0, <<>>, "raise"))
          /\ loc' = [loc EXCEPT ![r].beep = "none", ![r].pending = OnInsertError(r)]
          /\ Goto(r, AfterTry("raise"))
          /\ UNCHANGED <<store, nextId>>
    /\ UNCHANGED <<kind, args, sdk_lock, session, served>>

\* cards_collection.delete_one({"hotel_id": hotel_id}), then the success response.
DeleteOne(r) ==
    /\ Turn(r)
    /\ pc[r] = "persist" /\ kind[r] = "delete"
    /\ \/ /\ IF Matches(store, DeleteFilter(r)) = {}
               THEN /\ LogAll(r, <<Ev("delete_one", 0, <<>>, "ok"), Clock("elapsed")>>)
                    /\ loc' = [loc EXCEPT ![r].beep = "none",
                                          ![r].pending = Ok("Card deletion successful", <<>>)]
                    /\ UNCHANGED store
               ELSE \E id \in Matches(store, DeleteFilter(r)) :
                    /\ store' = Without(store, id)
                    /\ LogAll(r, <<Ev("delete_one", 0, <<id>>, "ok"), Clock("elapsed")>>)
                    /\ loc' = [loc EXCEPT ![r].beep = "none",
                                          ![r].pending = Ok("Card deletion successful", <<>>),
                                          ![r].removed = {id}]
          /\ Goto(r, AfterTry("return"))
       \/ /\ Log(r, Ev("delete_one", 0, <<>>, "raise"))
          /\ loc' = [loc EXCEPT ![r].beep = "none", ![r].pending = Unhandled("PyMongoError")]
          /\ Goto(r, AfterTry("raise"))
          /\ UNCHANGED store
    /\ UNCHANGED <<kind, args, sdk_lock, session, nextId, served>>

\* finally: close_usb()
CloseUsb(r) ==
    /\ Turn(r)
    /\ pc[r] = "close"
    /\ Log(r, Ev("CloseUSB", 1, <<>>, "ok"))
    /\ session' = session \ {r}
    /\ Goto(r, "release")
    /\ loc' = [loc EXCEPT ![r].beep = "none"]
    /\ UNCHANGED <<kind, args, sdk_lock, store, nextId, served>>

\* The lock once the with block is left, by return or by exception: free.
WithExit_HeldOnRaise(r) == IF loc[r].pending.exc = "none" THEN 0 ELSE r
WithExit(r) == 0

\* with sdk_lock: (exit); the response or exception leaves the handler.
Release(r) ==
    /\ Turn(r)
    /\ pc[r] = "release"
    /\ sdk_lock' = WithExit(r)
    /\ Log(r, Ev("release", 0, <<>>, "ok"))
    /\ Goto(r, "respond")
    /\ UNCHANGED <<kind, args, loc, session, store, nextId, served>>

\* trigger_buzzer, lines 443-486: the fields and their validation.
StartBuzzer(r) ==
    /\ Arrives(r)
    /\ \E f \in BuzzerReaderInputs, d \in DurationInputs :
        /\ kind' = [kind EXCEPT ![r] = "buzzer"]
        /\ args' = [args EXCEPT ![r] = [NoArgs EXCEPT !.fUSB = f, !.duration_ms = d]]
        /\ IF f \notin {0, 1}
             THEN Finish(r, HttpError(400, "fUSB must be 0 (USB) or 1 (proUSB).", 0))
             ELSE IF ~(10 <= d /\ d <= 10000)
                    THEN Finish(r, HttpError(400, "duration_ms must be between 10 and 10000 milliseconds.", 0))
                    ELSE Goto(r, "bz") /\ UNCHANGED loc
    /\ UNCHANGED <<sdk_lock, session, store, nextId, trace>>

\* trigger_buzzer, lines 488-505: result = buzzer(fUSB, duration_ms).
BuzzerCall(r) ==
    /\ Turn(r)
    /\ pc[r] = "bz"
    /\ \E ret \in Codes :
        /\ Log(r, Ev("Buzzer", c_ubyte(args[r].fUSB), <<BuzzerUnits(args[r].duration_ms)>>, OutOf(ret)))
        /\ Finish(r, IF ret = 0 THEN Ok("Buzzer activated", <<>>)
                     ELSE HttpError(500, "Failed to activate buzzer on the device", 0))
    /\ UNCHANGED <<kind, args, sdk_lock, session, store, nextId, served>>

\* The requests in flight are kept in arrival order: when one leaves, the
\* later ones move up.
Shift(f, r, none) ==
    [i \in Reqs |-> IF i < r THEN f[i] ELSE IF i < NReq THEN f[i + 1] ELSE none]

\* The response is delivered; the handler's frame is gone.
Respond(r) ==
    /\ Turn(r)
    /\ pc[r] = "respond"
    /\ pc' = Shift(pc, r, "idle")
    /\ kind' = Shift(kind, r, "none")
    /\ args' = Shift(args, r, NoArgs)
    /\ loc' = Shift(loc, r, NoLoc)
    /\ trace' = Shift(trace, r, <<>>)
    /\ sdk_lock' = IF sdk_lock > r THEN sdk_lock - 1 ELSE sdk_lock
    /\ session' = {IF q > r THEN q - 1 ELSE q : q \in session}
    /\ UNCHANGED <<store, nextId, served>>

Next ==
    \E r \in Reqs :
        \/ StartCreate(r)
        \/ StartRead(r)
        \/ StartDelete(r)
        \/ StartBuzzer(r)
        \/ FindOne(r)
        \/ Acquire(r)
        \/ LockedBuzzer(r)
        \/ InitUsb(r)
        \/ GuestCardCall(r)
        \/ ReadCardCall(r)
        \/ CardEraseCall(r)
        \/ FeedbackBuzzer(r)
        \/ InsertOne(r)
        \/ DeleteOne(r)
        \/ CloseUsb(r)
        \/ Release(r)
        \/ BuzzerCall(r)
        \/ Respond(r)

Spec == Init /\ [][Next]_vars

\* The steps of a handler once the request is received.  Every driver and
\* store call returns or raises and the scheduler lets every thread that can
\* run take its next step; requests arrive as the clients please.
Handler(r) ==
    \/ FindOne(r) \/ Acquire(r) \/ LockedBuzzer(r) \/ InitUsb(r)
    \/ GuestCardCall(r) \/ ReadCardCall(r) \/ CardEraseCall(r)
    \/ FeedbackBuzzer(r) \/ InsertOne(r) \/ DeleteOne(r)
    \/ CloseUsb(r) \/ Release(r) \/ BuzzerCall(r) \/ Respond(r)

\* The collection outlives the process: the agent starts with the cards
\* issued before.  Here one card, "A", is on record for hotel 1.
RecordInit ==
    /\ pc = [r \in Reqs |-> "idle"]
    /\ kind = [r \in Reqs |-> "none"]
    /\ args = [r \in Reqs |-> NoArgs]
    /\ loc = [r \in Reqs |-> NoLoc]
    /\ sdk_lock = 0
    /\ session = {}
    /\ store = <<[id |-> 1, hotel_id |-> [t |-> "int", v |-> 1], card_hex |-> <<65>>]>>
    /\ nextId = 2
    /\ trace = [r \in Reqs |-> <<>>]
    /\ served = 0

RecordSpec == RecordInit /\ [][Next]_vars

\* lockstr_to_bytes alone: line 262 of api_create_card, for a request whose
\* lock_no is any of LockStrings.
EncInit ==
    /\ pc = [r \in Reqs |-> IF r = 1 THEN "encode" ELSE "idle"]
    /\ kind = [r \in Reqs |-> IF r = 1 THEN "create" ELSE "none"]
    /\ \E l \in LockStrings :
        args = [r \in Reqs |-> IF r = 1 THEN [NoArgs EXCEPT !.lock_no = l] ELSE NoArgs]
    /\ loc = [r \in Reqs |-> NoLoc]
    /\ sdk_lock = 0
    /\ session = {}
    /\ store = <<>>
    /\ nextId = 1
    /\ trace = [r \in Reqs |-> <<>>]
    /\ served = 1

Encode(r) ==
    /\ pc[r] = "encode"
    /\ IF LockRaises(args[r].lock_no)
         THEN Finish(r, Unhandled(IF args[r].lock_no.t = "none" THEN "TypeError" ELSE "ValueError"))
         ELSE /\ loc' = [loc EXCEPT ![r].lock_no = lockstr_to_bytes(args[r].lock_no)]
              /\ Goto(r, "encoded")
    /\ UNCHANGED <<kind, args, sdk_lock, session, store, nextId, trace, served>>

EncNext == \E r \in Reqs : Encode(r)

EncSpec == EncInit /\ [][EncNext]_vars

\* Whether a request makes progress does not depend on which hotel, card or
\* vendor code it meets, only on the way it takes through its handler.  For
\* progress the requests and the driver's answers are drawn from one value
\* of each kind: hotel 1 or a non-numeric hotel_id, the lock string or none,
\* reader 1, 500 ms, vendor code 1, the identifier "A".
LivePayload ==
    \A r \in Reqs :
        /\ args[r].hotel_id \in {NoArgs.hotel_id, [t |-> "int", v |-> 1], [t |-> "bad", v |-> 0]}
        /\ args[r].lock_no \in {NoArgs.lock_no, [t |-> "str", s |-> Lock8]}
        /\ args[r].missing = {}
        /\ args[r].fUSB = 1
        /\ args[r].duration_ms \in {0, 500}
        /\ loc[r].res \in {0, 1}
        /\ \A i \in 1..Len(trace[r]) : trace[r][i].buf \in {<<>>, NoBuffer, <<65, 0>>}

LiveNext ==
    \E r \in Reqs :
        \/ StartCreate(r) /\ LivePayload'
        \/ StartRead(r) /\ LivePayload'
        \/ StartDelete(r) /\ LivePayload'
        \/ StartBuzzer(r) /\ LivePayload'
        \/ FindOne(r) /\ LivePayload'
        \/ Acquire(r) /\ LivePayload'
        \/ LockedBuzzer(r) /\ LivePayload'
        \/ InitUsb(r) /\ LivePayload'
        \/ GuestCardCall(r) /\ LivePayload'
        \/ ReadCardCall(r) /\ LivePayload'
        \/ CardEraseCall(r) /\ LivePayload'
        \/ FeedbackBuzzer(r) /\ LivePayload'
        \/ InsertOne(r) /\ LivePayload'
        \/ DeleteOne(r) /\ LivePayload'
        \/ CloseUsb(r) /\ LivePayload'
        \/ Release(r) /\ LivePayload'
        \/ BuzzerCall(r) /\ LivePayload'
        \/ Respond(r) /\ LivePayload'

Fairness == WF_vars(\E r \in Reqs : Handler(r) /\ LivePayload')

LiveSpec == Init /\ [][LiveNext]_vars /\ Fairness

\* ------------------------------------------------------------------ claims
Device == {"create", "read", "delete"}
\* The step is one of request r's handler: nobody else moves.
StepOf(r) == pc'[r] # pc[r] /\ \A q \in Reqs \ {r} : pc'[q] = pc[q]
Finished(r) == pc[r] = "respond"
InitOk(r) == Count(r, "initializeUSB", {"ok"})
InitFailed(r) == Count(r, "initializeUSB", {"fail"}) > 0
Closes(r) == Count(r, "CloseUSB", AnyOut)

\* C1: at most one USB session (successful initializeUSB .. CloseUSB) is open
\* at any time; a session is open only for the holder of sdk_lock, so it is
\* closed before the lock is released, and initializeUSB is never called
\* while a session is open.
C1_MutualExclusion ==
    /\ Cardinality(session) <= 1
    /\ \A r \in session : sdk_lock = r
    /\ \A r \in Reqs : pc[r] = "init" => session = {} /\ sdk_lock = r

\* Two requests at once: one has its session open, the other waits for the lock.
C1_Witness ==
    \E r, q \in Reqs : r # q /\ session = {r} /\ pc[r] = "op" /\ pc[q] = "wait"

\* C2: every driver call is made by the request that holds sdk_lock, the
\* Buzzer call of the /buzzer endpoint included.
C2_DriverCallsUnderLock ==
    [][\A r \in Reqs :
         (/\ StepOf(r)
          /\ \E i \in (Len(trace[r]) + 1)..Len(trace'[r]) : trace'[r][i].op \in DriverOps)
             => sdk_lock = r]_vars

\* C3: once initializeUSB has succeeded, CloseUSB is called exactly once
\* before the response or exception leaves the with block, whatever the way
\* out; a finished request has as many CloseUSB calls as successful
\* initializeUSB calls.
C3_Bracket ==
    \A r \in Reqs :
        /\ Closes(r) <= InitOk(r)
        /\ InitOk(r) <= 1
        /\ (kind[r] \in Device /\ pc[r] \in {"release", "respond"}) => Closes(r) = InitOk(r)
        /\ r \in session <=> (InitOk(r) = 1 /\ Closes(r) = 0)

\* A request whose store call raised after the card was written has closed
\* its session once and is about to answer.
C3_Witness ==
    \E r \in Reqs :
        /\ Finished(r) /\ loc[r].pending.exc = "PyMongoError"
        /\ InitOk(r) = 1 /\ Closes(r) = 1

\* C4: when initializeUSB returns nonzero, none of GuestCard, ReadCard and
\* CardErase is called, the request writes nothing to the store, it fails
\* with "USB initialization failed", and the lock is released.
C4_OpenFailure ==
    \A r \in Reqs :
        InitFailed(r) =>
            /\ Ops(r) \cap (BodyOps \cup StoreWrites) = {}
            /\ r \notin session
            /\ pc[r] \in {"release", "respond"}
            /\ loc[r].pending = HttpError(500, "USB initialization failed", 0)
            /\ Finished(r) => sdk_lock # r /\ "release" \in Ops(r)

C4_Witness ==
    \E r \in Reqs : Finished(r) /\ InitFailed(r) /\ kind[r] = "delete"

\* C5: a create_card request whose lock string is not 8 long, or which lacks
\* a required field, fails without taking sdk_lock and without any driver or
\* store call.
InvalidCreate(r) ==
    /\ kind[r] = "create"
    /\ \/ args[r].lock_no.t = "none"
       \/ Len(args[r].lock_no.s) # 8
       \/ args[r].hotel_id.t = "none"
       \/ args[r].missing # {}

C5_InvalidInputRejected ==
    \A r \in Reqs :
        InvalidCreate(r) =>
            /\ Finished(r)
            /\ trace[r] = <<>>
            /\ sdk_lock # r /\ r \notin session
            /\ loc[r].pending.status \in {400, 500}

C5_Witness ==
    \E r \in Reqs :
        /\ Finished(r) /\ kind[r] = "create"
        /\ args[r].lock_no.t = "str" /\ Len(args[r].lock_no.s) = 7
        /\ store # <<>>

\* C6: a delete_card request whose hotel has no CardRecord at lookup time
\* fails with "Card not found" without taking sdk_lock, without any driver
\* call and without changing the store.
HasRecord(s, n) == \E i \in 1..Len(s) : s[i].hotel_id.v = n

C6_NotFoundBeforeDevice ==
    [][\A r \in Reqs :
         (/\ StepOf(r)
          /\ kind[r] = "delete" /\ pc[r] = "find"
          /\ ~IntRaises(args[r].hotel_id)
          /\ ~HasRecord(store, args[r].hotel_id.v))
         => /\ pc'[r] = "respond"
            /\ loc'[r].pending = HttpError(404, "Card not found", 0)
            /\ \A i \in 1..Len(trace'[r]) : trace'[r][i].op = "find_one"
            /\ sdk_lock # r /\ sdk_lock' = sdk_lock /\ session' = session
            /\ store' = store]_vars

\* The lookup found nothing for hotel 2 although hotel 1 has a card.
C6_Witness ==
    \E r \in Reqs :
        /\ kind[r] = "delete" /\ Finished(r) /\ loc[r].pending.status = 404
        /\ Len(trace[r]) = 1
        /\ store # <<>> /\ ~HasRecord(store, args[r].hotel_id.v)

\* C7: after a successful delete_card the document removed from the store is
\* the one that was looked up (whose card_hex went to CardErase), and no other.
C7_EraseRemovesErased ==
    \A r \in Reqs :
        (kind[r] = "delete" /\ Finished(r) /\ loc[r].pending.status = 200)
            => /\ loc[r].removed = {loc[r].target}
               /\ loc[r].target \notin Ids(store)

\* C8: with one request at a time, a card issued for hotel id h (the store
\* holds the document create_card inserted for h, with its identifier) can
\* be erased with the same h: the erase is not answered "not found", a
\* successful erase removes exactly one document, and a lookup that finds
\* no document for the hotel is answered "Card not found".
IssuedFor(s, h) == \E i \in 1..Len(s) : s[i].hotel_id = h /\ s[i].card_hex # <<>>

C8_RoundTrip ==
    \A r \in Reqs :
        (kind[r] = "delete" /\ Finished(r) /\ \A q \in Reqs \ {r} : pc[q] = "idle") =>
            /\ (Len(trace[r]) = 1 /\ IssuedFor(store, args[r].hotel_id))
                   => loc[r].pending.status \notin {404, 400}
            /\ (loc[r].pending.status = 200 /\ args[r].hotel_id.t = "int")
                   => Cardinality(loc[r].removed) = 1
            /\ (Len(trace[r]) = 1 /\ ~HasRecord(store, args[r].hotel_id.v))
                   => loc[r].pending.status = 404

\* C9: when CardErase returns nonzero, delete_card removes nothing from the
\* store, fails with "Card deletion failed" and the vendor code, and the
\* session is closed and the lock released.
EraseFailed(r) == Count(r, "CardErase", {"fail"}) > 0

C9_EraseFailureKeepsStore ==
    \A r \in Reqs :
        EraseFailed(r) =>
            /\ Ops(r) \cap StoreWrites = {}
            /\ loc[r].removed = {}
            /\ loc[r].res \in ErrCodes
            /\ pc[r] # "fb" => loc[r].pending = HttpError(500, "Card deletion failed", loc[r].res)
            /\ Finished(r) => Closes(r) = 1 /\ r \notin session /\ sdk_lock # r

C9_Witness ==
    \E r \in Reqs :
        /\ Finished(r) /\ EraseFailed(r) /\ loc[r].pending.code = 2
        /\ loc[r].target \in Ids(store)

\* C10: every document in the store was inserted by a create_card request
\* whose GuestCard call returned 0 and holds the identifier decoded from the
\* buffer of that call; a create_card whose GuestCard call returns nonzero
\* inserts nothing and fails with "Card creation failed" and the vendor code.
GuestCardEvents(r) == {i \in 1..Len(trace[r]) : trace[r][i].op = "GuestCard"}

InsertedBy(d, r) ==
    /\ kind[r] = "create" /\ pc[r] = "persist"
    /\ \E i \in GuestCardEvents(r) :
        /\ trace[r][i].out = "ok"
        /\ d.card_hex = DecodePayload(trace[r][i].buf)
    /\ d.hotel_id = args[r].hotel_id

IssueFailed(r) == Count(r, "GuestCard", {"fail"}) > 0

C10_RecordsFromSuccessfulIssues ==
    /\ store = <<>>
    /\ [][\A i \in 1..Len(store') :
            \/ \E j \in 1..Len(store) : store[j] = store'[i]
            \/ \E r \in Reqs : InsertedBy(store'[i], r)]_vars
    /\ [](\A r \in Reqs :
            IssueFailed(r) =>
                /\ Ops(r) \cap StoreWrites = {}
                /\ loc[r].res \in ErrCodes
                /\ pc[r] # "fb" => loc[r].pending = HttpError(500, "Card creation failed", loc[r].res))

\* A card was issued and stored; a later request's GuestCard call failed and
\* it answers with the vendor code.
C10_Witness ==
    \E r \in Reqs :
        /\ kind[r] = "create" /\ Finished(r) /\ IssueFailed(r)
        /\ loc[r].pending.code = 1
        /\ \E i \in 1..Len(store) : store[i].card_hex = <<65>>

\* C11: when GuestCard returned 0 and insert_one then raised, create_card
\* ends in an error that is neither the success response nor the "Card
\* creation failed" response of a device failure; the exception is not
\* swallowed, the session is closed and the lock released.
InsertFailed(r) == kind[r] = "create" /\ Count(r, "insert_one", {"raise"}) > 0

C11_InsertFailureDistinct ==
    \A r \in Reqs :
        InsertFailed(r) =>
            /\ Count(r, "GuestCard", {"ok"}) = 1
            /\ loc[r].pending.status # 200
            /\ loc[r].pending.exc \notin {"none", "HTTPException"}
            /\ loc[r].pending.detail # "Card creation failed"
            /\ pc[r] \in {"close", "release", "respond"}
            /\ Finished(r) => Closes(r) = 1 /\ r \notin session /\ sdk_lock # r

\* The card was written, nothing was stored, and the request answers.
C11_Witness ==
    \E r \in Reqs :
        /\ InsertFailed(r) /\ Finished(r)
        /\ loc[r].card_data = <<65>> /\ store = <<>> /\ sdk_lock = 0

\* C12: the store is changed only after the device is given back: every
\* insert_one and delete_one of a request comes after its CloseUSB and after
\* its release of sdk_lock.
CalledBefore(r, op, i) == \E j \in 1..(i - 1) : trace[r][j].op = op

C12_StoreAfterRelease ==
    \A r \in Reqs : \A i \in 1..Len(trace[r]) :
        trace[r][i].op \in StoreWrites
            => CalledBefore(r, "CloseUSB", i) /\ CalledBefore(r, "release", i)

\* C13: a request takes sdk_lock only when no request that began to wait
\* before it is still waiting.
C13_FifoService ==
    [][\A r \in Reqs :
         (StepOf(r) /\ pc[r] = "wait" /\ pc'[r] = "buzz")
             => \A q \in Waiting : loc[r].queue_start <= loc[q].queue_start]_vars

\* C14: a request that holds sdk_lock releases it on every way out, so the
\* lock becomes free again; the requests waiting for it all get it; every
\* request in flight is answered.
C14_NoStarvation ==
    /\ (sdk_lock # 0) ~> (sdk_lock = 0)
    /\ (Waiting # {}) ~> (Waiting = {})
    /\ (\E r \in Reqs : pc[r] # "idle") ~> (\A r \in Reqs : pc[r] = "idle")

\* A request waits while the holder is on its way out with an exception.
C14_Witness ==
    \E r, q \in Reqs :
        /\ sdk_lock = r /\ pc[r] = "release" /\ loc[r].pending.exc = "OSError"
        /\ pc[q] = "wait"

\* C15: for every duration_ms the /buzzer endpoint accepts, the time-unit
\* value passed to the driver's Buzzer call is duration_ms integer-divided
\* by 10.
C15_BuzzerUnits ==
    \A r \in Reqs :
        kind[r] = "buzzer" =>
            \A i \in 1..Len(trace[r]) :
                trace[r][i].op = "Buzzer" => trace[r][i].arg = <<args[r].duration_ms \div 10>>

\* C16: for every 8-character lock string lockstr_to_bytes returns exactly 8
\* bytes, byte i being the ASCII code of character i; for a string of any
\* other length it raises and returns nothing.
AsciiCode(c) == IF c = "0" THEN 48 ELSE IF c = "1" THEN 49 ELSE 56

C16_LockEncoding ==
    \A r \in Reqs :
        pc[r] \in {"encoded", "respond"} =>
            LET str == args[r].lock_no.s IN
            IF Len(str) = 8
              THEN /\ pc[r] = "encoded"
                   /\ Len(loc[r].lock_no) = 8
                   /\ \A i \in 1..8 : loc[r].lock_no[i] = AsciiCode(str[i])
              ELSE /\ pc[r] = "respond"
                   /\ loc[r].pending.exc = "ValueError"
                   /\ loc[r].lock_no = <<>>

\* "01000808" is encoded.
C16_Witness ==
    \E r \in Reqs :
        /\ pc[r] = "encoded"
        /\ args[r].lock_no.s = Lock8
        /\ loc[r].lock_no = <<48, 49, 48, 48, 48, 56, 48, 56>>

\* C17: no step of a readcard request changes the store, whatever its
\* outcome, and a readcard request makes no store call.
C17_ReadLeavesStore ==
    /\ [][\A r \in Reqs : (StepOf(r) /\ kind[r] = "read") => store' = store]_vars
    /\ [](\A r \in Reqs :
            kind[r] = "read" => Ops(r) \cap (StoreWrites \cup {"find_one"}) = {})

\* A card is on record and a read has succeeded.
C17_Witness ==
    \E r \in Reqs :
        /\ kind[r] = "read" /\ Finished(r) /\ loc[r].pending.status = 200
        /\ loc[r].pending.card_data = <<65>>
        /\ Len(store) = 1

\* C18: for a create_card, readcard or delete_card request that reports its
\* metrics, the wait runs from queue_start to the reading taken once the
\* lock is acquired and contains nothing but the acquisition (so it is zero
\* when the lock is free), and the hold runs from start_time to elapsed, is
\* not negative, and covers every call the request makes between acquiring
\* and releasing sdk_lock.
At(r, name) == CHOOSE i \in 1..Len(trace[r]) : trace[r][i] = Clock(name)
FirstCall(r, op) == CHOOSE i \in 1..Len(trace[r]) : trace[r][i].op = op
CallsBetween(r, a, b) ==
    {k \in (a + 1)..(b - 1) : trace[r][k].op \in DriverOps \cup StoreWrites}

C18_LatencyAccounting ==
    \A r \in Reqs :
        (kind[r] \in Device /\ Finished(r) /\ loc[r].pending.status = 200) =>
            /\ At(r, "queue_start") < At(r, "queue_wait")
            /\ CallsBetween(r, At(r, "queue_start"), At(r, "queue_wait")) = {}
            /\ At(r, "start_time") < At(r, "elapsed")
            /\ CallsBetween(r, FirstCall(r, "acquire"), FirstCall(r, "release"))
                   \subseteq CallsBetween(r, At(r, "start_time"), At(r, "elapsed"))

\* C19: in create_card, readcard and delete_card every Buzzer, GuestCard,
\* ReadCard and CardErase call comes after a successful initializeUSB of the
\* request and before its CloseUSB.
OpenedBefore(r, i) ==
    \E j \in 1..(i - 1) : trace[r][j].op = "initializeUSB" /\ trace[r][j].out = "ok"

C19_CallsInsideSession ==
    \A r \in Reqs :
        kind[r] \in Device =>
            \A i \in 1..Len(trace[r]) :
                trace[r][i].op \in BodyOps \cup {"Buzzer"}
                    => OpenedBefore(r, i) /\ ~CalledBefore(r, "CloseUSB", i)

\* C20: in a create_card request whose GuestCard call returned (0 or not),
\* Buzzer is called after GuestCard and before CloseUSB, and whether that
\* call fails makes no difference: the request goes on to insert_one when
\* GuestCard returned 0 and to "Card creation failed" with the vendor code
\* otherwise.
Returned(r, i) == trace[r][i].op = "GuestCard" /\ trace[r][i].out \in {"ok", "fail"}

BuzzedAfter(r, i) ==
    \E j \in (i + 1)..Len(trace[r]) :
        trace[r][j].op = "Buzzer" /\ ~CalledBefore(r, "CloseUSB", j)

C21_NoDoubleErase ==
    \A r \in Reqs :
        (kind[r] = "delete" /\ args[r].hotel_id.t = "int") =>
            /\ (pc[r] = "fb" /\ "CardErase" \in Ops(r)) => loc[r].target \in Ids(store)
            /\ (Finished(r) /\ loc[r].pending.status = 200)
                   => Cardinality(loc[r].removed) = 1

\* C22: within a readcard request, the reader type given to ReadCard is the
\* reader type given to the initializeUSB call that opened the session and to
\* the CloseUSB call that closes it.
C22_ReaderConsistent ==
    \A r \in Reqs :
        kind[r] = "read" =>
            \A i, j \in 1..Len(trace[r]) :
                (trace[r][i].op = "ReadCard" /\ trace[r][j].op \in {"initializeUSB", "CloseUSB"})
                    => trace[r][i].reader = trace[r][j].reader

====
